---- MODULE Spec2Model ----
(***************************************************************************)
(* Model of the nexus upload scripts (src/upload.js, src/publish.js).      *)
(*                                                                         *)
(* SchedSpec, SchedFair: one call of runWithConcurrencyLimit over abstract *)
(*   tasks, for any task list and any limit (SchedFair adds fairness).     *)
(* Spec: one run of upload.js (getTarBalls, createTarball, main's dedup    *)
(*   and sort, publishTarballs) on any dependency tree of up to MaxNodes   *)
(*   positions, with any content of ./archives and of the registry.        *)
(* RerunSpec: two runs of upload.js in a row, starting with nothing        *)
(*   archived and nothing published.                                       *)
(* ReplaySpec: the fetch phase of upload.js run twice from the same tree   *)
(*   and the same content of ./archives, to compare the two outcomes.      *)
(* DeepSpec: one run of upload.js on a chain of up to MaxDepth packages.   *)
(***************************************************************************)
EXTENDS Integers, Sequences, FiniteSets, TLC

\* ------------------------------------------------------------------------
\* Bounds of the model
\* ------------------------------------------------------------------------
\* Longest task list handed to the scheduler in SchedSpec.
MaxTasks == 4
\* Largest concurrency limit tried in SchedSpec (the smallest is -1).
MaxLimit == 3

\* Most positions (package entries) of the dependency tree npm ls prints.
MaxNodes == 3

\* Longest chain of packages, each the only dependency of the one before, in
\* DeepSpec: one more than MAXIMUM_CONCURRENT_REQUESTS.
MaxDepth == 11

\* const MAXIMUM_CONCURRENT_REQUESTS = 10; (src/upload.js 7)
MAXIMUM_CONCURRENT_REQUESTS == 10

VARIABLES
    sched,        \* SchedSpec: the state of one runWithConcurrencyLimit call
    order,        \* SchedSpec: the order in which tasks were started and settled (history)
    schedPhase,   \* "ready": not called yet, "called": the call has returned its promise
    graph,        \* the dependency tree read from npm ls --json --all
    archives,     \* ./archives: file name -> the package whose tarball it holds
    cwd,          \* the .tgz files of the current directory, likewise
    registry,     \* name@version -> whether the Nexus registry holds it
    run,          \* 1 in the first run of upload.js, 2 in the second
    mainPc,       \* where main() is
    pc,           \* where the fetch task of each tree position is
    call,         \* the scheduler state of each getTarBalls call (0: the root call)
    tb,           \* the tarBalls array of each getTarBalls call
    pub,          \* tarballsSortedAndFiltered
    pubCall,      \* the scheduler state of publishTarballs
    ppc,          \* where each publish task is
    hist,         \* what the run did so far (history, read by the properties only)
    base          \* ReplaySpec: what ./archives held at first, and the list the
                  \* first run handed to publishing

schedVars == <<sched, order, schedPhase>>
envVars == <<graph, archives, registry>>
progVars == <<run, mainPc, pc, call, tb, pub, pubCall, ppc, cwd, hist>>
pipeVars == <<envVars, progVars, base>>
vars == <<schedVars, pipeVars>>

\* ------------------------------------------------------------------------
\* runWithConcurrencyLimit (src/upload.js 38-62, src/publish.js 60-84)
\* ------------------------------------------------------------------------
\* A hole of a JavaScript array: an index below length that was never assigned.
Hole == <<"empty">>

\* What a task's promise settles with: task j resolves with a value of its own
\* or rejects with an error of its own.
Outcome(j, kind) == <<kind, j>>

\* const results = []; let running = 0; let i = 0;
\* st[j] is the state of the promise returned by tasks[j-1](); fin[j] tells whether
\* its .finally handler has run; resolved counts the calls of resolve(results),
\* and returned is the array the promise was fulfilled with.
NewSched(n, limit) ==
    [ n        |-> n,
      limit    |-> limit,
      i        |-> 0,
      running  |-> 0,
      st       |-> [j \in 1..n |-> "unstarted"],
      fin      |-> [j \in 1..n |-> FALSE],
      results  |-> <<>>,
      resolved |-> 0,
      returned |-> <<>> ]

\* results[currentIndex] = v on a JavaScript array: the array grows to
\* currentIndex + 1, the indices in between stay holes. k is the 0-based index.
ArraySet(arr, k, v) ==
    [x \in 1..(IF Len(arr) > k + 1 THEN Len(arr) ELSE k + 1) |->
        IF x = k + 1 THEN v
        ELSE IF x <= Len(arr) THEN arr[x]
        ELSE Hole]

\* The mutant of the loop guard: "running <= limit".
LoopGuardOffByOne(s) == s.running <= s.limit /\ s.i < s.n

\* while (running < limit && i < tasks.length)
LoopGuard(s) == s.running < s.limit /\ s.i < s.n

\* const currentIndex = i++; running++; tasks[currentIndex]() ...
StartOne(s) ==
    [s EXCEPT !.i = @ + 1,
              !.running = @ + 1,
              !.st[s.i + 1] = "pending"]

\* The mutant of the start loop: "if" in place of "while", one start per runNext.
StartAtMostOne(s) == IF LoopGuard(s) THEN StartOne(s) ELSE s

RECURSIVE WhileStart(_)
WhileStart(s) == IF LoopGuard(s) THEN WhileStart(StartOne(s)) ELSE s

\* The mutant of the completion test: the running count is not looked at.
AllStartedOnly(s) == s.i = s.n

\* if (i === tasks.length && running === 0)
AllDone(s) == s.i = s.n /\ s.running = 0

\* resolve(results): only the first call fulfils the promise.
Resolve(s) ==
    [s EXCEPT !.resolved = @ + 1,
              !.returned = IF s.resolved = 0 THEN s.results ELSE @]

\* function runNext()
RunNext(s) == IF AllDone(s) THEN Resolve(s) ELSE WhileStart(s)

\* The mutant of the result store: results.push(v).
StorePushed(s, j, v) == [s EXCEPT !.results = Append(@, v)]

\* .then((result) => (results[currentIndex] = result))
\* .catch((err) => (results[currentIndex] = err))
StoreResult(s, j, v) == [s EXCEPT !.results = ArraySet(@, j - 1, v)]

\* The mutant of the settle step: a rejection is not caught into the slot.
SettleDropsError(s, j, kind) ==
    IF kind = "error"
    THEN [s EXCEPT !.st[j] = "rejected"]
    ELSE StoreResult([s EXCEPT !.st[j] = "fulfilled"], j, Outcome(j, kind))

\* The promise of task j settles and its .then or .catch handler runs.
Settle(s, j, kind) ==
    StoreResult([s EXCEPT !.st[j] = IF kind = "error" THEN "rejected" ELSE "fulfilled"],
                j, Outcome(j, kind))

\* .finally(() => { running--; runNext(); })
Finally(s, j) == RunNext([s EXCEPT !.running = @ - 1, !.fin[j] = TRUE])

\* The promise runWithConcurrencyLimit returned: the code only ever resolves it.
PromiseState(s) == IF s.resolved > 0 THEN "fulfilled" ELSE "pending"

\* The tasks started and not yet settled.
InFlight(s) == {j \in 1..s.n : s.st[j] = "pending"}

\* ------------------------------------------------------------------------
\* Package names, versions and file names (strings are sequences of characters)
\* ------------------------------------------------------------------------
\* s.replace(/ch/g, with)
RECURSIVE ReplaceAll(_, _, _)
ReplaceAll(s, ch, with) ==
    IF s = <<>> THEN <<>>
    ELSE (IF Head(s) = ch THEN with ELSE <<Head(s)>>) \o ReplaceAll(Tail(s), ch, with)

\* name.replace(/@/g, "").replace(/\//g, "-")
Sanitize(name) == ReplaceAll(ReplaceAll(name, "@", <<>>), "/", <<"-">>)

\* `${name.replace(/@/g, "").replace(/\//g, "-")}-${object.version}.tgz`
FileName(name, version) == Sanitize(name) \o <<"-">> \o version \o <<".tgz">>

\* `./archives/${fileName}`
ArchivePath(fileName) == <<"./archives/">> \o fileName

\* The packages of the model: two names that are sanitized to the same file name,
\* and one that is not.
Pkgs ==
    { [name |-> <<"@", "a", "/", "b">>, version |-> <<"1">>],
      [name |-> <<"a", "-", "b">>,      version |-> <<"1">>],
      [name |-> <<"c">>,                version |-> <<"1">>] }

FileOf(p) == FileName(p.name, p.version)
Files == {FileOf(p) : p \in Pkgs}

\* No file, no package.
NoPkg == [name |-> <<>>, version |-> <<>>]

\* A file of ./archives that this run has not looked at yet: what earlier runs
\* left there is decided when the file is first read, which admits the same
\* behaviours as deciding it before the run.
Unread == [name |-> <<"?">>, version |-> <<>>]

\* What a first read of file f may find: nothing, or the tarball of a package
\* whose name is sanitized to f.
MayHold(f) == {NoPkg} \cup {q \in Pkgs : FileOf(q) = f}

\* What reading file f of directory dir finds.
ReadFile(dir, f) == IF dir[f] = Unread THEN MayHold(f) ELSE {dir[f]}

\* { tarball: archivePath, name, version: object.version }
Record(p) == [tarball |-> ArchivePath(FileOf(p)), name |-> p.name, version |-> p.version]

\* ------------------------------------------------------------------------
\* The dependency tree
\* ------------------------------------------------------------------------
\* Position p holds package pkg[p] and is an entry of the dependencies object of
\* position parent[p] (0: of the project). The entries of one object have
\* distinct names and are numbered in the object's key order. resolved is the
\* set of packages whose entries carry a resolved URL.
TreeShapes(n) == {par \in [1..n -> 0..(n - 1)] : \A p \in 1..n : par[p] < p}

Labellings(n, par) ==
    {lab \in [1..n -> Pkgs] :
        \A p, q \in 1..n : (p # q /\ par[p] = par[q]) => lab[p].name # lab[q].name}

Graphs ==
    UNION { UNION { UNION {
        { [n |-> n, parent |-> par, pkg |-> lab, resolved |-> res] :
            res \in SUBSET {lab[p] : p \in 1..n} } :
        lab \in Labellings(n, par) } :
        par \in TreeShapes(n) } :
        n \in 1..MaxNodes }

\* Object.entries(packages): the positions of one dependencies object, in order.
Kids(g, c) == SelectSeq([p \in 1..g.n |-> p], LAMBDA p : g.parent[p] = c)

\* The index (from 1) of position p among the tasks of its getTarBalls call.
IndexOf(g, p) == Cardinality({q \in 1..p : g.parent[q] = g.parent[p]})

\* if (object.dependencies)
HasDependencies(g, p) == \E q \in 1..g.n : g.parent[q] = p

\* const url = object.resolved; if (!url)
HasUrl(g, p) == g.pkg[p] \in g.resolved

\* ------------------------------------------------------------------------
\* main(): dedup and sort (src/upload.js 207-214)
\* ------------------------------------------------------------------------
\* The mutant of the dedup test: records are compared by name.
SameName(e, entry) == e.name = entry.name

\* (e) => e.tarball === entry.tarball
SameTarball(e, entry) == e.tarball = entry.tarball

\* .reduce((acc, entry) => { if (!acc.some(...)) acc.push(entry); return acc; }, [])
RECURSIVE Dedup(_, _)
Dedup(acc, rest) ==
    IF rest = <<>> THEN acc
    ELSE Dedup(IF \E x \in 1..Len(acc) : SameTarball(acc[x], Head(rest))
               THEN acc ELSE Append(acc, Head(rest)),
               Tail(rest))

\* The collation rank of a character: punctuation, then digits, then letters.
CharRank(ch) ==
    CASE ch = "-" -> 1
      [] ch = "." -> 2
      [] ch = "./archives/" -> 2
      [] ch = ".tgz" -> 2
      [] ch = "@" -> 3
      [] ch = "/" -> 4
      [] ch = "1" -> 11
      [] ch = "2" -> 12
      [] ch = "a" -> 21
      [] ch = "b" -> 22
      [] ch = "c" -> 23
      [] OTHER -> 30

\* a.localeCompare(b) < 0, character by character
RECURSIVE Before(_, _)
Before(a, b) ==
    IF b = <<>> THEN FALSE
    ELSE IF a = <<>> THEN TRUE
    ELSE IF CharRank(Head(a)) # CharRank(Head(b)) THEN CharRank(Head(a)) < CharRank(Head(b))
    ELSE Before(Tail(a), Tail(b))

\* Array.prototype.sort: a stable sort, here by insertion.
RECURSIVE Insert(_, _)
Insert(sorted, e) ==
    IF sorted = <<>> THEN <<e>>
    ELSE IF Before(e.tarball, Head(sorted).tarball) THEN <<e>> \o sorted
    ELSE <<Head(sorted)>> \o Insert(Tail(sorted), e)

RECURSIVE SortByTarball(_)
SortByTarball(list) ==
    IF list = <<>> THEN <<>>
    ELSE Insert(SortByTarball(SubSeq(list, 1, Len(list) - 1)), list[Len(list)])

\* tarBalls.reduce(...).sort(...)
SortedAndFiltered(tarBalls) == SortByTarball(Dedup(<<>>, tarBalls))

\* ------------------------------------------------------------------------
\* upload.js: the program state and its continuations
\* ------------------------------------------------------------------------
\* Promise continuations run to completion before the next I/O callback, so each
\* action below is one I/O completion together with everything the event loop
\* runs because of it. The operators take and return the program state b.
Bundle ==
    [ mainPc |-> mainPc, pc |-> pc, call |-> call, tb |-> tb, pub |-> pub,
      pubCall |-> pubCall, ppc |-> ppc, cwd |-> cwd, hist |-> hist ]

Assign(b) ==
    /\ mainPc' = b.mainPc
    /\ pc' = b.pc
    /\ call' = b.call
    /\ tb' = b.tb
    /\ pub' = b.pub
    /\ pubCall' = b.pubCall
    /\ ppc' = b.ppc
    /\ cwd' = b.cwd
    /\ hist' = b.hist

\* A scheduler that was never called.
Idle == NewSched(0, 0)

NoFiles == [f \in Files |-> NoPkg]

\* Nothing kept from an earlier run.
NoBase == [archives |-> NoFiles, pub |-> <<>>]

\* hit: the positions whose stat(archivePath) found the file; downloads, packs:
\* those that started fetch(url), npm pack; exdev: those whose rename met EXDEV;
\* present, absent: the publish tasks whose npm view reported the version
\* present, absent; invoked, skipped: those that called npm publish, returned
\* "already published"; failed: a download, npm pack, rename, npm view or npm
\* publish failed (EXDEV aside); fault: one of them failed for a reason of the
\* environment, that is, not because the file to move or to publish was missing.
NoHist ==
    [ hit |-> {}, downloads |-> {}, packs |-> {}, exdev |-> {},
      present |-> {}, absent |-> {}, invoked |-> {}, skipped |-> {},
      failed |-> FALSE, fault |-> FALSE ]

\* A fetch task the scheduler started runs up to its first await: stat(archivePath).
SyncFetch(b, c) ==
    [b EXCEPT !.pc = [p \in DOMAIN b.pc |->
        IF /\ graph.parent[p] = c
           /\ b.pc[p] = "unstarted"
           /\ b.call[c].st[IndexOf(graph, p)] = "pending"
        THEN "stat" ELSE b.pc[p]]]

\* A publish task the scheduler started runs up to its first await: npm view.
SyncPublish(b) ==
    [b EXCEPT !.ppc = [k \in DOMAIN b.ppc |->
        IF b.ppc[k] = "unstarted" /\ b.pubCall.st[k] = "pending"
        THEN "view" ELSE b.ppc[k]]]

\* main() after await publishTarballs: every .tgz of the current directory is
\* removed (src/upload.js 217-224).
MainAfterPublish(b) == [b EXCEPT !.mainPc = "done", !.cwd = NoFiles]

\* main() after await getTarBalls: dedup, sort, publishTarballs (206-216).
MainAfterCollect(b) ==
    LET list == SortedAndFiltered(b.tb[0])
        s    == RunNext(NewSched(Len(list), MAXIMUM_CONCURRENT_REQUESTS))
        b1   == SyncPublish([b EXCEPT !.mainPc = "publish",
                                      !.pub = list,
                                      !.pubCall = s,
                                      !.ppc = [k \in 1..Len(list) |-> "unstarted"]])
    IN  IF s.resolved > 0 THEN MainAfterPublish(b1) ELSE b1

\* A publish task settles: then/catch, finally, runNext; publishTarballs returns
\* when its scheduler resolves.
PublishTaskEnds(b, k, kind) ==
    LET s  == Finally(Settle(b.pubCall, k, kind), k)
        b1 == SyncPublish([b EXCEPT !.pubCall = s, !.ppc[k] = "done"])
    IN  IF s.resolved > b.pubCall.resolved THEN MainAfterPublish(b1) ELSE b1

\* The fetch task of position p settles: then/catch, finally, runNext. When the
\* scheduler of its getTarBalls call resolves, the call returns: the root call to
\* main, a nested call to the task that awaits it, which pushes the children's
\* records (tarBalls.push(...childTarBalls)) and settles in turn.
RECURSIVE TaskEnds(_, _, _)
TaskEnds(b, p, kind) ==
    LET c  == graph.parent[p]
        s  == Finally(Settle(b.call[c], IndexOf(graph, p), kind), IndexOf(graph, p))
        b1 == SyncFetch([b EXCEPT !.call[c] = s, !.pc[p] = "done"], c)
    IN  IF s.resolved = b.call[c].resolved THEN b1
        ELSE IF c = 0 THEN MainAfterCollect(b1)
        ELSE TaskEnds([b1 EXCEPT !.tb[graph.parent[c]] = @ \o b1.tb[c]], c, "value")

\* if (object.dependencies) { await getTarBalls(object.dependencies) ... }
\* getTarBalls first awaits stat("./archives").
AfterFetch(b, p) ==
    IF HasDependencies(graph, p) THEN [b EXCEPT !.pc[p] = "deps"]
    ELSE TaskEnds(b, p, "value")

\* tarBalls.push({ tarball, name, version }) in the call position p belongs to
Push(b, p) == [b EXCEPT !.tb[graph.parent[p]] = Append(@, Record(graph.pkg[p]))]

\* The mutant of the cache test: the archive is fetched although it exists.
AfterStatIgnoresCache(exists, hasUrl) == IF hasUrl THEN "fetch" ELSE "pack"

\* try { await stat(archivePath); ... } catch (_) { await createTarball(...) }
\* and in createTarball: if (!url) npm pack, else fetch(url)
AfterStat(exists, hasUrl) ==
    IF exists THEN "cached" ELSE IF hasUrl THEN "fetch" ELSE "pack"

\* The mutant of the publish gate: the answer of npm view is not looked at.
GateAlwaysPublishes(alreadyPublished) == "publish"

\* if (alreadyPublished) return `Tarball already published: ...`
Gate(alreadyPublished) == IF alreadyPublished THEN "skip" ELSE "publish"

\* The file name of a record's tarball path.
FileOfPath(path) == Tail(path)

Ident(r) == [name |-> r.name, version |-> r.version]

\* ------------------------------------------------------------------------
\* upload.js: the actions
\* ------------------------------------------------------------------------
Fetching == mainPc = "collect"

\* The packages of the tree.
PkgsOf(g) == {g.pkg[p] : p \in 1..g.n}

\* Whether the registry holds a version it was not asked about yet in this run
\* is decided at the first npm view of it, likewise.
Holds(reg, q) == IF reg[q] = "unasked" THEN BOOLEAN ELSE {reg[q] = "held"}

ProgInit ==
    /\ mainPc = "start"
    /\ pc = [p \in 1..graph.n |-> "unstarted"]
    /\ call = [c \in 0..graph.n |-> Idle]
    /\ tb = [c \in 0..graph.n |-> <<>>]
    /\ pub = <<>>
    /\ pubCall = Idle
    /\ ppc = <<>>
    /\ hist = NoHist

PipeInit ==
    /\ graph \in Graphs
    /\ archives = [f \in Files |-> Unread]
    /\ cwd = NoFiles
    /\ registry = [q \in Pkgs |-> "unasked"]
    /\ run = 1
    /\ ProgInit

\* main(): npm ls, then getTarBalls(npmDependencies.dependencies): the archives
\* directory is made and the root tasks are handed to the scheduler (202-206, 70-95).
MainStart ==
    /\ mainPc = "start"
    /\ Assign(SyncFetch([Bundle EXCEPT
            !.mainPc = "collect",
            !.call[0] = RunNext(NewSched(Len(Kids(graph, 0)), MAXIMUM_CONCURRENT_REQUESTS))], 0))
    /\ UNCHANGED <<schedVars, base, envVars, run>>

\* await stat(archivePath) of the task of position p answers (83-89, 107-125).
StatArchive(p) ==
    /\ Fetching /\ pc[p] = "stat"
    /\ \E found \in ReadFile(archives, FileOf(graph.pkg[p])) :
         LET exists == found # NoPkg
             next   == AfterStat(exists, HasUrl(graph, p))
             b      == [Bundle EXCEPT !.hist.hit = IF exists THEN @ \cup {p} ELSE @]
         IN  /\ archives' = [archives EXCEPT ![FileOf(graph.pkg[p])] = found]
             /\ CASE next = "cached" ->
                    Assign(AfterFetch(Push(b, p), p))
                  [] next = "fetch" ->
                    Assign([b EXCEPT !.pc[p] = "fetch", !.hist.downloads = @ \cup {p}])
                  [] next = "pack" ->
                    Assign([b EXCEPT !.pc[p] = "pack", !.hist.packs = @ \cup {p}])
    /\ UNCHANGED <<schedVars, base, graph, registry, run>>

\* fetch(url), arrayBuffer and writeFile end: the file is written under
\* ./archives, or one of them failed and createTarball rejects (125-142).
Download(p) ==
    /\ Fetching /\ pc[p] = "fetch"
    /\ \/ /\ archives' = [archives EXCEPT ![FileOf(graph.pkg[p])] = graph.pkg[p]]
          /\ Assign([Bundle EXCEPT !.pc[p] = "stat2"])
       \/ /\ Assign(TaskEnds([Bundle EXCEPT !.hist.failed = TRUE,
                                              !.hist.fault = TRUE], p, "error"))
          /\ UNCHANGED archives
    /\ UNCHANGED <<schedVars, base, graph, registry, run>>

\* npm pack ends: the tarball is in the current directory under the name npm
\* gives it, or npm failed and createTarball rejects (114-121).
NpmPack(p) ==
    /\ Fetching /\ pc[p] = "pack"
    /\ \/ Assign([Bundle EXCEPT !.pc[p] = "stat2",
                                !.cwd[FileOf(graph.pkg[p])] = graph.pkg[p]])
       \/ Assign(TaskEnds([Bundle EXCEPT !.hist.failed = TRUE,
                                           !.hist.fault = TRUE], p, "error"))
    /\ UNCHANGED <<schedVars, base, envVars, run>>

\* stat(archiveFilePath) in createTarball answers: an existing file ends
\* createTarball without a record (144-149).
StatPlaced(p) ==
    /\ Fetching /\ pc[p] = "stat2"
    /\ IF archives[FileOf(graph.pkg[p])] # NoPkg
       THEN Assign(AfterFetch(Bundle, p))
       ELSE Assign([Bundle EXCEPT !.pc[p] = "rename"])
    /\ UNCHANGED <<schedVars, base, envVars, run>>

\* rename(tarball, archiveFilePath) ends: the file is moved, or the rename failed
\* with EXDEV, which is swallowed, or with another error, which is thrown (with
\* ENOENT when the file is no longer in the current directory); the record is
\* pushed unless it threw (150-159).
Rename(p) ==
    LET f == FileOf(graph.pkg[p]) IN
    /\ Fetching /\ pc[p] = "rename"
    /\ \/ /\ cwd[f] # NoPkg
          /\ archives' = [archives EXCEPT ![f] = cwd[f]]
          /\ Assign(AfterFetch(Push([Bundle EXCEPT !.cwd[f] = NoPkg], p), p))
       \/ /\ cwd[f] # NoPkg
          /\ Assign(AfterFetch(Push([Bundle EXCEPT !.hist.exdev = @ \cup {p}], p), p))
          /\ UNCHANGED archives
       \/ /\ Assign(TaskEnds([Bundle EXCEPT !.hist.failed = TRUE,
                                              !.hist.fault = @ \/ cwd[f] # NoPkg],
                             p, "error"))
          /\ UNCHANGED archives
    /\ UNCHANGED <<schedVars, base, graph, registry, run>>

\* The nested getTarBalls(object.dependencies) of position p hands its tasks to a
\* scheduler of its own (90-95).
NestedGetTarBalls(p) ==
    /\ Fetching /\ pc[p] = "deps"
    /\ Assign(SyncFetch([Bundle EXCEPT
            !.pc[p] = "await",
            !.call[p] = RunNext(NewSched(Len(Kids(graph, p)), MAXIMUM_CONCURRENT_REQUESTS))], p))
    /\ UNCHANGED <<schedVars, base, envVars, run>>

\* npm view name@version ends; resolve(!error): an error for any reason counts
\* as "not published" (169-178).
NpmView(k) ==
    /\ mainPc = "publish" /\ ppc[k] = "view"
    /\ \E held \in Holds(registry, Ident(pub[k])), error \in BOOLEAN :
          /\ ~held => error
          /\ registry' = [registry EXCEPT ![Ident(pub[k])] = IF held THEN "held" ELSE "absent"]
          /\ LET b == [Bundle EXCEPT
                        !.hist.failed = @ \/ (error /\ held),
                        !.hist.fault = @ \/ (error /\ held),
                        !.hist.present = IF error THEN @ ELSE @ \cup {k},
                        !.hist.absent = IF error THEN @ \cup {k} ELSE @]
             IN  IF Gate(~error) = "skip"
                 THEN Assign(PublishTaskEnds(
                          [b EXCEPT !.hist.skipped = @ \cup {k}], k, "value"))
                 ELSE Assign([b EXCEPT !.ppc[k] = "publish",
                                       !.hist.invoked = @ \cup {k}])
    /\ UNCHANGED <<schedVars, base, graph, archives, run>>

\* npm publish tarball ends: the registry took the package the file holds, or
\* npm failed (no such file, registry refusal, network) (179-192).
NpmPublish(k) ==
    LET content == archives[FileOfPath(pub[k].tarball)] IN
    /\ mainPc = "publish" /\ ppc[k] = "publish"
    /\ \/ /\ content # NoPkg
          /\ registry' = [registry EXCEPT ![content] = "held"]
          /\ Assign(PublishTaskEnds(Bundle, k, "value"))
       \/ /\ Assign(PublishTaskEnds([Bundle EXCEPT !.hist.failed = TRUE,
                                                     !.hist.fault = @ \/ content # NoPkg],
                                    k, "error"))
          /\ UNCHANGED registry
    /\ UNCHANGED <<schedVars, base, graph, archives, run>>

\* upload.js is run again on the same dependency tree.
Rerun ==
    /\ mainPc = "done" /\ run = 1
    /\ run' = 2
    /\ Assign([ mainPc |-> "start",
                pc |-> [p \in 1..graph.n |-> "unstarted"],
                call |-> [c \in 0..graph.n |-> Idle],
                tb |-> [c \in 0..graph.n |-> <<>>],
                pub |-> <<>>, pubCall |-> Idle, ppc |-> <<>>, cwd |-> cwd,
                hist |-> [NoHist EXCEPT !.failed = hist.failed, !.fault = hist.fault] ])
    /\ UNCHANGED <<schedVars, base, envVars>>

Positions == 1..graph.n

\* The steps up to the return of getTarBalls to main.
FetchStep ==
    \/ MainStart
    \/ \E p \in Positions : StatArchive(p)
    \/ \E p \in Positions : Download(p)
    \/ \E p \in Positions : NpmPack(p)
    \/ \E p \in Positions : StatPlaced(p)
    \/ \E p \in Positions : Rename(p)
    \/ \E p \in Positions : NestedGetTarBalls(p)

\* The steps of publishTarballs.
PublishStep ==
    \/ \E k \in 1..Len(pub) : NpmView(k)
    \/ \E k \in 1..Len(pub) : NpmPublish(k)

Step == FetchStep \/ PublishStep

\* ------------------------------------------------------------------------
\* SchedSpec: one call, any task list up to MaxTasks, any limit in -1..MaxLimit
\* ------------------------------------------------------------------------
Limits == (0 - 1)..MaxLimit

\* The tasks one runNext() started, in the order it started them (i counts up).
NewlyStarted(s, t) == [x \in 1..(t.i - s.i) |-> s.i + x]

SchedInit ==
    /\ \E n \in 0..MaxTasks, l \in Limits : sched = NewSched(n, l)
    /\ schedPhase = "ready"
    /\ order = [started |-> <<>>, settled |-> <<>>]
    /\ base = NoBase
    /\ graph = [n |-> 0, parent |-> <<>>, pkg |-> <<>>, resolved |-> {}]
    /\ archives = NoFiles /\ cwd = NoFiles /\ registry = [q \in Pkgs |-> "unasked"]
    /\ run = 1
    /\ ProgInit

\* runWithConcurrencyLimit(tasks, limit): the promise executor calls runNext().
SchedCall ==
    /\ schedPhase = "ready"
    /\ schedPhase' = "called"
    /\ sched' = RunNext(sched)
    /\ order' = [order EXCEPT !.started = NewlyStarted(sched, sched')]
    /\ UNCHANGED pipeVars

\* A started task settles, with a value or with an error.
SchedSettle ==
    /\ schedPhase = "called"
    /\ \E j \in InFlight(sched), kind \in {"value", "error"} :
          /\ sched' = Settle(sched, j, kind)
          /\ order' = [order EXCEPT !.settled = Append(@, j)]
    /\ UNCHANGED <<schedPhase, pipeVars>>

\* The .finally handler of a settled task runs.
SchedFinally ==
    /\ schedPhase = "called"
    /\ \E j \in 1..sched.n :
          /\ sched.st[j] \in {"fulfilled", "rejected"}
          /\ ~sched.fin[j]
          /\ sched' = Finally(sched, j)
    /\ order' = [order EXCEPT !.started = @ \o NewlyStarted(sched, sched')]
    /\ UNCHANGED <<schedPhase, pipeVars>>

SchedNext == SchedCall \/ SchedSettle \/ SchedFinally

SchedSpec == SchedInit /\ [][SchedNext]_vars

\* Every started task eventually settles, and the event loop runs every queued
\* handler.
SchedFair ==
    /\ SchedInit /\ [][SchedNext]_vars
    /\ WF_vars(SchedCall) /\ WF_vars(SchedSettle) /\ WF_vars(SchedFinally)

\* ------------------------------------------------------------------------
\* Spec: one run of upload.js; RerunSpec: two runs in a row
\* ------------------------------------------------------------------------
Init ==
    /\ PipeInit
    /\ sched = Idle
    /\ order = [started |-> <<>>, settled |-> <<>>]
    /\ base = NoBase
    /\ schedPhase = "unused"

Next == Step

Spec == Init /\ [][Next]_vars

\* RerunSpec starts from a fresh installation: nothing archived, nothing published.
FreshInit ==
    /\ graph \in Graphs
    /\ archives = NoFiles
    /\ cwd = NoFiles
    /\ registry = [q \in Pkgs |-> "absent"]
    /\ run = 1
    /\ ProgInit
    /\ sched = Idle
    /\ order = [started |-> <<>>, settled |-> <<>>]
    /\ base = NoBase
    /\ schedPhase = "unused"

RerunNext == Step \/ Rerun

RerunSpec == FreshInit /\ [][RerunNext]_vars

\* ReplaySpec: the fetch phase of upload.js is run, and then run once more from
\* the same tree and the same content of ./archives, for the two lists handed to
\* publishing to be compared. The content of ./archives is any.
ReplayInit ==
    /\ graph \in Graphs
    /\ archives \in {dir \in [Files -> Pkgs \cup {NoPkg}] : \A f \in Files : dir[f] \in MayHold(f)}
    /\ cwd = NoFiles
    /\ registry = [q \in Pkgs |-> "unasked"]
    /\ run = 1
    /\ ProgInit
    /\ sched = Idle
    /\ order = [started |-> <<>>, settled |-> <<>>]
    /\ schedPhase = "unused"
    /\ base = [archives |-> archives, pub |-> <<>>]

\* getTarBalls has returned to main.
Collected == mainPc \in {"publish", "done"}

\* The first run has handed its list to publishing, nothing of the environment
\* having failed: the list is kept, ./archives and the current directory are put
\* back as they were, and upload.js is started again.
Replay ==
    /\ Collected /\ run = 1
    /\ ~hist.fault /\ hist.exdev = {}
    /\ run' = 2
    /\ base' = [base EXCEPT !.pub = pub]
    /\ archives' = base.archives
    /\ Assign([ mainPc |-> "start",
                pc |-> [p \in 1..graph.n |-> "unstarted"],
                call |-> [c \in 0..graph.n |-> Idle],
                tb |-> [c \in 0..graph.n |-> <<>>],
                pub |-> <<>>, pubCall |-> Idle, ppc |-> <<>>, cwd |-> NoFiles,
                hist |-> NoHist ])
    /\ UNCHANGED <<schedVars, graph, registry>>

ReplayNext == FetchStep \/ Replay

ReplaySpec == ReplayInit /\ [][ReplayNext]_vars

\* DeepSpec: one run of upload.js on a tree that is a chain: the project depends
\* on one package, which depends on one package, and so on, down to any depth up
\* to MaxDepth. What the schedulers do depends on the shape of the tree only; the
\* packages of the model are put on the chain in turn.
PkgOrder == CHOOSE seq \in [1..Cardinality(Pkgs) -> Pkgs] : \A q \in Pkgs : \E x \in DOMAIN seq : seq[x] = q

Chains ==
    UNION {
        { [ n |-> n,
            parent |-> [p \in 1..n |-> p - 1],
            pkg |-> [p \in 1..n |-> PkgOrder[((p - 1) % Cardinality(Pkgs)) + 1]],
            resolved |-> res ] : res \in SUBSET Pkgs } :
        n \in 1..MaxDepth }

DeepInit ==
    /\ graph \in Chains
    /\ archives = [f \in Files |-> Unread]
    /\ cwd = NoFiles
    /\ registry = [q \in Pkgs |-> "unasked"]
    /\ run = 1
    /\ ProgInit
    /\ sched = Idle
    /\ order = [started |-> <<>>, settled |-> <<>>]
    /\ schedPhase = "unused"
    /\ base = NoBase

DeepSpec == DeepInit /\ [][Step]_vars

\* ------------------------------------------------------------------------
\* Properties of the scheduler
\* ------------------------------------------------------------------------
Settled(s, j) == s.st[j] \in {"fulfilled", "rejected"}

\* C1: for any task list and any limit >= 1, in every reachable state of one
\* runWithConcurrencyLimit call the number of tasks started and not yet settled
\* is at most limit.
C1_InFlightAtMostLimit ==
    sched.limit >= 1 => Cardinality(InFlight(sched)) <= sched.limit

\* The limit binds: limit tasks are in flight while a task is still unstarted.
C1_Witness ==
    /\ schedPhase = "called"
    /\ sched.limit >= 1
    /\ Cardinality(InFlight(sched)) = sched.limit
    /\ sched.i < sched.n

\* C2: when the call resolves (limit >= 1), the result array has as many entries
\* as the task list and entry i holds the outcome of tasks[i] and of no other
\* task, whatever the order in which the tasks completed.
C2_ResultsAligned ==
    (sched.limit >= 1 /\ sched.resolved > 0) =>
        /\ Len(sched.returned) = sched.n
        /\ \A j \in 1..sched.n :
              sched.returned[j] =
                  Outcome(j, IF sched.st[j] = "rejected" THEN "error" ELSE "value")

\* Resolved after three or more tasks that settled out of input order, with a
\* value and an error among them.
C2_Witness ==
    /\ sched.resolved > 0
    /\ sched.n >= 3
    /\ \E a, b \in 1..Len(order.settled) : a < b /\ order.settled[a] > order.settled[b]
    /\ \E j, k \in 1..sched.n : sched.st[j] = "rejected" /\ sched.st[k] = "fulfilled"

\* C3: if a task rejects, its error is stored in its own result slot, every
\* other task is still started and settles, and the returned promise resolves.
C3_FailureIsolated ==
    /\ [](sched.limit >= 1 =>
            \A j \in 1..sched.n :
               sched.st[j] = "rejected" =>
                  /\ Len(sched.results) >= j
                  /\ sched.results[j] = Outcome(j, "error"))
    /\ []((sched.limit >= 1 /\ \E j \in 1..sched.n : sched.st[j] = "rejected") =>
            <>(/\ PromiseState(sched) = "fulfilled"
               /\ \A k \in 1..sched.n : Settled(sched, k) /\ sched.fin[k]))

\* With limit 1, the first task rejected, a later task was started after it and
\* the call resolved.
C3_Witness ==
    /\ sched.limit = 1
    /\ sched.n >= 2
    /\ sched.st[1] = "rejected"
    /\ sched.st[sched.n] = "fulfilled"
    /\ sched.resolved = 1

\* C4: for any task list, the empty one included, and limit >= 1, provided every
\* started task settles, completion is signalled exactly once: the call
\* eventually resolves, never resolves a second time, and when it resolves every
\* task has been started and has settled.
C4_CompletesOnce ==
    /\ [](sched.limit >= 1 => sched.resolved <= 1)
    /\ []((sched.limit >= 1 /\ sched.resolved >= 1) =>
            /\ sched.i = sched.n
            /\ sched.running = 0
            /\ \A j \in 1..sched.n : Settled(sched, j) /\ sched.fin[j])
    /\ [](sched.limit >= 1 => <>(sched.resolved = 1))

\* Resolved once after more tasks than the limit allows at a time.
C4_Witness ==
    /\ sched.resolved = 1
    /\ sched.limit >= 1
    /\ sched.n > sched.limit

\* C5: called with limit <= 0 and a non-empty task list, the call fails at once
\* with a scheduler-misuse error: no task is started and the returned promise is
\* not left pending.
C5_MisuseFailsAtOnce ==
    (schedPhase = "called" /\ sched.limit <= 0 /\ sched.n > 0) =>
        /\ sched.i = 0
        /\ InFlight(sched) = {}
        /\ PromiseState(sched) # "pending"

\* ------------------------------------------------------------------------
\* Properties of upload.js
\* ------------------------------------------------------------------------
\* How many records of list carry the identity q.
Occurrences(list, q) == Cardinality({x \in 1..Len(list) : Ident(list[x]) = q})

\* C6: the list of records getTarBalls returns holds each distinct name@version
\* of the dependency tree exactly once, however many positions it occupies and
\* in whatever order the fetch tasks complete (stated here for runs in which no
\* download, npm pack, rename or npm command failed).
C6_EachRefExactlyOnce ==
    (Collected /\ ~hist.failed) =>
        \A q \in PkgsOf(graph) : Occurrences(tb[0], q) = 1

\* C7: if the archive file of a package exists when its fetch task checks, the
\* task yields a record for that package at that path, and starts neither a
\* download nor npm pack.
C7_CacheHitFetchesNothing ==
    \A p \in Positions :
        p \in hist.hit =>
            /\ p \notin hist.downloads
            /\ p \notin hist.packs
            /\ \E x \in 1..Len(tb[graph.parent[p]]) :
                  tb[graph.parent[p]][x] = Record(graph.pkg[p])

\* A nested position found its archive while a sibling had to download its own.
C7_Witness ==
    \E p, q \in Positions :
        /\ p \in hist.hit
        /\ graph.parent[p] # 0
        /\ q \in hist.downloads
        /\ pc[p] = "done"

\* C8: every publish task first asks the registry for its name@version; if the
\* registry reports it present the task returns "already published" and npm
\* publish is never invoked for the record; npm publish is invoked only after
\* the check of the same record reported it absent.
C8_PublishGated ==
    \A k \in 1..Len(pub) :
        /\ ppc[k] \in {"publish", "done"} => k \in hist.present \cup hist.absent
        /\ k \in hist.present =>
              /\ k \in hist.skipped
              /\ k \notin hist.invoked
              /\ ppc[k] = "done"
              /\ pubCall.st[k] = "fulfilled"
        /\ k \in hist.invoked => k \in hist.absent /\ k \notin hist.skipped

\* One record was skipped because the registry holds it, another was published.
C8_Witness ==
    \E k, m \in 1..Len(pub) :
        /\ k \in hist.present /\ registry[Ident(pub[k])] = "held"
        /\ m \in hist.invoked /\ ppc[m] = "done" /\ pubCall.st[m] = "fulfilled"

\* C9: within one run npm publish is invoked at most once for any archive path,
\* even when several collected records share the path, two records with
\* different package names included.
C9_OnePublishPerPath ==
    \A k, m \in hist.invoked : pub[k].tarball = pub[m].tarball => k = m

\* Two collected records with different names share a path, and npm publish was
\* invoked for that path.
C9_Witness ==
    /\ Collected
    /\ \E x, y \in 1..Len(tb[0]), k \in hist.invoked :
          /\ tb[0][x].tarball = tb[0][y].tarball
          /\ tb[0][x].name # tb[0][y].name
          /\ pub[k].tarball = tb[0][x].tarball

\* C10: when upload.js is run twice in a row on the same tree and nothing failed,
\* the second run starts no download and no npm pack, and never invokes npm
\* publish.
C10_SecondRunDoesNothing ==
    (run = 2 /\ ~hist.failed) =>
        /\ hist.downloads = {}
        /\ hist.packs = {}
        /\ hist.invoked = {}

\* The records pushed so far, in any getTarBalls call.
AllRecords == UNION {{tb[c][x] : x \in 1..Len(tb[c])} : c \in DOMAIN tb}

\* C11: the archive path is a pure and injective function of name and version:
\* records of the same name@version carry the same path, and records that
\* differ in name or version never carry the same path.
C11_PathInjective ==
    \A r1, r2 \in AllRecords :
        (Ident(r1) = Ident(r2)) <=> (r1.tarball = r2.tarball)

\* The promise of the fetch task of position p was rejected.
Rejected(p) ==
    /\ pc[p] = "done"
    /\ call[graph.parent[p]].st[IndexOf(graph, p)] = "rejected"

\* C12: when two fetch tasks at different positions target the same
\* name@version, then under every interleaving of their stats, downloads or
\* packs and renames (the environment failing nowhere, every device the same),
\* neither task ends in error and once both have finished the file is at the
\* archive path.
C12_SameRefRaceIsBenign ==
    \A p, q \in Positions :
        (/\ p # q
         /\ graph.pkg[p] = graph.pkg[q]
         /\ pc[p] = "done" /\ pc[q] = "done"
         /\ ~hist.fault
         /\ hist.exdev = {}) =>
            /\ ~Rejected(p)
            /\ ~Rejected(q)
            /\ archives[FileOf(graph.pkg[p])] # NoPkg

\* C13: when the rename of a packed tarball into ./archives meets EXDEV, the
\* fetch task does not fail and the move is completed by copy and delete: the
\* record createTarball then pushes names a path at which the file exists.
C13_ExdevMoveCompletes ==
    \A p \in hist.exdev :
        /\ ~Rejected(p)
        /\ Record(graph.pkg[p]) \in AllRecords =>
              archives[FileOf(graph.pkg[p])] # NoPkg

\* ------------------------------------------------------------------------
\* The end of the run (src/upload.js 216-231)
\* ------------------------------------------------------------------------
\* The tasks whose promise was rejected: fetch tasks by position, publish tasks
\* by index.
FailedTasks ==
    {<<"fetch", p>> : p \in {q \in Positions : Rejected(q)}}
        \cup {<<"publish", k>> : k \in {m \in 1..Len(pub) : pubCall.st[m] = "rejected"}}

\* What main() reports after the run: getTarBalls drops the result array of its
\* scheduler (95), and main assigns publishResults and never reads it (216);
\* errors are only logged by the failing task at the time they happen.
ReportedFailures(publishResults) == {}

\* main().catch(...process.exit(1)): the exit status is 1 only if the promise of
\* main() is rejected; otherwise node ends with status 0.
ExitCode(mainState) == IF mainState = "rejected" THEN 1 ELSE 0

\* C14: under collect-and-continue every task of every batch is run although
\* some fail, the failures reported at the end of the run are exactly the tasks
\* that failed, and the run ends in success if and only if there are none.
C14_CollectAndContinue ==
    mainPc = "done" =>
        /\ \A c \in DOMAIN call : \A j \in 1..call[c].n : Settled(call[c], j)
        /\ \A k \in 1..Len(pub) : Settled(pubCall, k)
        /\ ReportedFailures(pubCall.returned) = FailedTasks
        /\ (ExitCode(mainPc) = 0) <=> (FailedTasks = {})

\* C15: under fail-fast, once the failure of a task has been detected (its
\* .catch handler ran) no task that is still unstarted is started, while every
\* task already running is left to settle.
C15_FailFastStopsLaunching ==
    [][(sched.limit >= 1 /\ \E j \in 1..sched.n : sched.st[j] = "rejected") =>
          /\ sched'.i = sched.i
          /\ \A j \in InFlight(sched) : sched'.st[j] # "unstarted"]_vars

\* C16: for a fixed dependency tree and a fixed initial content of ./archives,
\* the list handed to publishing (after dedup and sort) is the same, entry for
\* entry with each entry's name and version, whatever the interleaving and the
\* completion order of the fetch tasks: two runs from the same tree and the same
\* archives, in neither of which the environment failed, hand over equal lists.
C16_PublishListDeterministic ==
    (run = 2 /\ Collected /\ ~hist.fault /\ hist.exdev = {}) => pub = base.pub

FetchInFlight == {p \in Positions : pc[p] \notin {"unstarted", "done"}}

\* C18: during the whole fetch phase, nested getTarBalls calls included, the
\* number of fetch tasks started and not yet settled never exceeds
\* MAXIMUM_CONCURRENT_REQUESTS, whatever the depth and width of the tree.
C18_GlobalFetchLimit ==
    Cardinality(FetchInFlight) <= MAXIMUM_CONCURRENT_REQUESTS

\* The fetch task of position p ended without an error: the archive was found,
\* downloaded or packed.
Obtained(p) == pc[p] = "done" /\ ~Rejected(p)

\* No two packages of the tree are given the same archive path.
DistinctPaths(g) ==
    \A p, q \in 1..g.n : FileOf(g.pkg[p]) = FileOf(g.pkg[q]) => g.pkg[p] = g.pkg[q]

\* C19: every package whose artifact was obtained in the run, found cached,
\* downloaded or packed, has a record in the list getTarBalls returns and so
\* is given a publish task in the same run (stated here for trees whose
\* packages have distinct archive paths).
C19_ObtainedIsCollected ==
    (Collected /\ DistinctPaths(graph)) =>
        \A p \in Positions :
            Obtained(p) =>
                /\ \E x \in 1..Len(tb[0]) : Ident(tb[0][x]) = graph.pkg[p]
                /\ \E k \in 1..Len(pub) : Ident(pub[k]) = graph.pkg[p]

\* C20: a failed fetch of one package keeps no other package of the tree from
\* a fetch attempt: when getTarBalls has returned, every position of the tree
\* was visited, the dependencies of a package whose fetch failed included.
C20_FailureDoesNotSkipDependencies ==
    Collected =>
        \A p \in Positions :
            /\ pc[p] # "unstarted"
            /\ p \in hist.hit \cup hist.downloads \cup hist.packs

====
